---- MODULE Spec2Model ----
(***************************************************************************)
(* Invoice lifecycle of the serverless digital-asset payment sample:       *)
(* invoice generator, invoice-management API, payment watcher, sweeper and *)
(* the DynamoDB stream event source that triggers the sweeper, for the     *)
(* three deployments of the repository (EVM, Solana with a hot-wallet key, *)
(* Solana with a KMS-signed hot wallet).                                   *)
(***************************************************************************)
EXTENDS Integers, Sequences, FiniteSets, TLC

\* ------------------------------------------------------------------ bounds
MaxInvoices == 1        \* invoices issued in one behaviour
MaxClock == 5           \* timestamps handed out by new Date()
NativeDecimals == 1     \* decimals of the native coin (stands for 18 / 9)
GasUnits == 10          \* what provider.estimateGas answers
GasPrice == 1           \* what provider.getFeeData answers
SolFee == 5             \* what getEstimatedFee answers (lamports)
RentExempt == 4         \* what getMinimumBalanceForRentExemption(0) answers
MaxDuplicates == 1      \* duplicate deliveries of one stream record
MaxPending == 1         \* submitted, unconfirmed transactions of an address at an invocation's start
TokenDecimals == 6      \* what the token's decimals() / the mint answers
MaxBatch == 3           \* keys of the invoice table (invoices of one watcher cycle, of one burst of requests)
MaxIssuers == 2         \* invoice-generator invocations in flight at once
MaxBacklog == 3         \* unconfirmed transactions of an address when redeliveries pile up

\* ------------------------------------------------------- program constants
bufferPercent == 10
retryAttempts == 3
RentFactor == 2

\* ------------------------------------------------------------------- sets
Deployments == {"evm", "solana", "solanaKms"}
TableIds == 1..MaxBatch
Issuers == 1..MaxIssuers
Addresses == 0..MaxBatch   \* 0: the address of an undefined path
Statuses == {"pending", "paid", "swept", "cancelled"}
RequestedStatuses == Statuses
Null == "null"

VARIABLES
  deployment,   \* which stack is deployed
  now,          \* the clock read by new Date()
  table,        \* the invoice table: invoiceId -> item
  counter,      \* currentIndex of the counter table (0: attribute absent)
  nativeBal,    \* address -> native balance in base units
  tokenBal,     \* address -> token balance in base units
  treasury,     \* address -> number of confirmed transfers to the treasury
  topUps,       \* address -> base units received from the hot wallet
  tokenAcct,    \* address -> the token account of the address exists
  pendingTx,    \* address -> transactions submitted but not yet confirmed
  feed,         \* stream records that passed the event-source filter
  esm,          \* event source mapping: retries and duplicates of the head
  sw,           \* the sweeper invocation
  w,            \* the watcher invocation
  adm,          \* the invoice-management invocation
  iss,          \* the invoice-generator invocation
  payNotes,     \* invoiceId -> payment notifications published
  cap,          \* what one behaviour is limited to: invoices requested, generator
                \* invocations in flight, watcher invocations in flight,
                \* unconfirmed transactions at a sweep's start, timestamps handed out
  bodyDecimals, \* derivation index -> the decimals its creation request carried
                \* (0: no request yet)
  console       \* the operator who edits an item in the DynamoDB console

vars == <<deployment, now, table, counter, nativeBal, tokenBal, treasury, topUps,
          tokenAcct, pendingTx, feed, esm, sw, w, adm, iss, payNotes, cap, bodyDecimals, console>>

\* the invoices a behaviour may request and address
InvoiceIds == 1..cap.invoices

\* ---------------------------------------------------------------- the store
NoItem ==
  [exists |-> FALSE, status |-> Null, currency |-> Null, tokenAddress |-> FALSE,
   amount |-> 0, address |-> 0, path |-> 0, createdAt |-> 0, paidAt |-> 0, sweptAt |-> 0,
   updatedAt |-> 0]

\* a put of the named attributes that replaces the whole item
PutItem(item, attrs) ==
  [f \in DOMAIN item |->
     IF f = "exists" THEN TRUE
     ELSE IF f \in DOMAIN attrs THEN attrs[f] ELSE NoItem[f]]

\* DocumentClient.update with a SET expression: writes the named attributes and
\* creates the item when the key is absent
UpdateItem(item, attrs) ==
  [f \in DOMAIN item |->
     IF f = "exists" THEN TRUE
     ELSE IF f \in DOMAIN attrs THEN attrs[f] ELSE item[f]]

NativeCurrency == IF deployment = "evm" THEN "ETH" ELSE "SOL"
TokenCurrency == IF deployment = "evm" THEN "ERC20" ELSE "SPL"

RECURSIVE Pow10(_)
Pow10(d) == IF d = 0 THEN 1 ELSE 10 * Pow10(d - 1)

\* an invoice amount is a decimal string with one fraction digit ("1.0", "1.1"),
\* held as its number of tenths
AmountDen == 10

\* ethers.parseEther / parseUnits: a decimal amount scaled to base units (exact)
parseUnits(amount, decimals) == (amount * Pow10(decimals)) \div AmountDen

\* ------------------------------------------------- JavaScript numbers
\* IEEE 754 binary64: a positive number is a mantissa m of MantissaBits bits,
\* most significant first and m[1] = 1, with an exponent e, worth m * 2^e;
\* every operation rounds to nearest, ties to even
MantissaBits == 53
FloatZero == [m |-> <<>>, e |-> 0]

\* the arithmetic below works on limbs of LimbBits bits, so that every
\* intermediate product stays below 2^31; a quotient is developed to FracLimbs
\* limbs behind the binary point
LimbBits == 10
FracLimbs == 8

RECURSIVE Pow2(_)
Pow2(k) == IF k = 0 THEN 1 ELSE 2 * Pow2(k - 1)

Limb == Pow2(LimbBits)

\* the k low bits of c, most significant first
BitsOfWidth(c, k) == [i \in 1..k |-> (c \div Pow2(k - i)) % 2]

\* bits without its leading zeros
Strip(bits) ==
  LET ones == {i \in 1..Len(bits) : bits[i] = 1}
  IN IF ones = {} THEN <<>>
     ELSE SubSeq(bits, CHOOSE i \in ones : \A j \in ones : i <= j, Len(bits))

\* the bits of a natural number below 2^31
BitsOf(n) == Strip(BitsOfWidth(n, 31))

\* the number a limb's bits stand for
RECURSIVE ValueOf(_)
ValueOf(bits) ==
  IF bits = <<>> THEN 0 ELSE 2 * ValueOf(SubSeq(bits, 1, Len(bits) - 1)) + bits[Len(bits)]

\* the bits of a sequence of limbs
Flatten(limbs) ==
  [j \in 1..(LimbBits * Len(limbs)) |->
     BitsOfWidth(limbs[((j - 1) \div LimbBits) + 1], LimbBits)[((j - 1) % LimbBits) + 1]]

\* the next k limbs of r / den (r < den) behind the binary point, and the
\* remainder they leave
RECURSIVE FractionLimbs(_, _, _, _)
FractionLimbs(limbs, r, den, k) ==
  IF k = 0 THEN [limbs |-> limbs, r |-> r]
  ELSE FractionLimbs(Append(limbs, (r * Limb) \div den), (r * Limb) % den, den, k - 1)

\* bits + 1 in the same width (all ones wraps to all zeros)
Increment(bits) ==
  LET zeros == {i \in 1..Len(bits) : bits[i] = 0}
  IN IF zeros = {} THEN [i \in 1..Len(bits) |-> 0]
     ELSE LET last == CHOOSE i \in zeros : \A j \in zeros : j <= i
          IN [i \in 1..Len(bits) |-> IF i < last THEN bits[i] ELSE IF i = last THEN 1 ELSE 0]

\* the binary64 nearest to bits * 2^e (bits[1] = 1); sticky says that the exact
\* value has nonzero bits beyond the ones given
RoundNearestEven(bits, e, sticky) ==
  LET n == Len(bits)
  IN IF n <= MantissaBits
       THEN [m |-> bits \o [i \in 1..(MantissaBits - n) |-> 0], e |-> e - (MantissaBits - n)]
     ELSE LET kept == SubSeq(bits, 1, MantissaBits)
              guard == bits[MantissaBits + 1]
              rest == sticky \/ \E i \in (MantissaBits + 2)..n : bits[i] = 1
              up == guard = 1 /\ (rest \/ kept[MantissaBits] = 1)
              inc == Increment(kept)
          IN IF ~up THEN [m |-> kept, e |-> e + (n - MantissaBits)]
             ELSE IF inc[1] = 1 THEN [m |-> inc, e |-> e + (n - MantissaBits)]
             ELSE [m |-> [inc EXCEPT ![1] = 1], e |-> e + (n - MantissaBits) + 1]

\* n / den for integers exactly representable, as the division operator gives
\* it (den below 2^21)
floatDiv(n, den) ==
  LET f == FractionLimbs(<<>>, n % den, den, FracLimbs)
  IN IF n = 0 THEN FloatZero
     ELSE RoundNearestEven(Strip(BitsOfWidth(n \div den, 31) \o Flatten(f.limbs)),
                           0 - LimbBits * FracLimbs, f.r # 0)

\* Number(n) of an integer below 2^53: exact
Number(n) == floatDiv(n, 1)

\* parseFloat of an amount string: the binary64 nearest to the decimal
parseFloat(amount) == floatDiv(amount, AmountDen)

\* limbs * c + carry for a small integer c, least significant limb last
RECURSIVE MulLimbs(_, _, _)
MulLimbs(limbs, c, carry) ==
  IF limbs = <<>> THEN <<carry>>
  ELSE LET n == Len(limbs)
           d == limbs[n] * c + carry
       IN Append(MulLimbs(SubSeq(limbs, 1, n - 1), c, d \div Limb), d % Limb)

\* the mantissa as limbs, most significant first
Limbs(m) ==
  LET k == (MantissaBits + LimbBits - 1) \div LimbBits
      padded == [i \in 1..(k * LimbBits - MantissaBits) |-> 0] \o m
  IN [i \in 1..k |-> ValueOf(SubSeq(padded, (i - 1) * LimbBits + 1, i * LimbBits))]

\* x * c for a number x and an exactly representable integer c, 1 <= c < 2^21
\* (Math.pow(10, decimals))
floatMulInt(x, c) ==
  IF x = FloatZero THEN FloatZero
  ELSE LET p == MulLimbs(Limbs(x.m), c, 0)
       IN RoundNearestEven(Strip(BitsOfWidth(p[1], 31) \o Flatten(Tail(p))), x.e, FALSE)

\* x >= y
floatGE(x, y) ==
  IF y = FloatZero THEN TRUE
  ELSE IF x = FloatZero THEN FALSE
  ELSE IF x.e # y.e THEN x.e > y.e
  ELSE LET diff == {i \in 1..MantissaBits : x.m[i] # y.m[i]}
       IN diff = {} \/ x.m[CHOOSE i \in diff : \A j \in diff : i <= j] = 1

Watchers == {"w1", "w2"}
Amounts == {50, 83}
\* body.decimals of a creation request: the token's decimals, or a smaller value
SpoofedDecimals == 2
ClientDecimals == {SpoofedDecimals, TokenDecimals}
Faults == {"none", "rpc", "tx", "db", "sns"}

IdleIssuer ==
  [pc |-> "idle", index |-> 0, currency |-> Null, tokenAddress |-> FALSE, amount |-> 0,
   decimals |-> 0]
IdleAdmin ==
  [pc |-> "idle", op |-> Null, id |-> 0, req |-> Null, cur |-> Null, before |-> NoItem,
   resp |-> 0]
IdleWatcher ==
  [pc |-> "idle", items |-> <<>>, listed |-> <<>>, processed |-> <<>>, failed |-> <<>>]
NoRecord == [invoiceId |-> 0, currency |-> Null, tokenAddress |-> FALSE, path |-> 0]
IdleSweeper ==
  [pc |-> "idle", rec |-> NoRecord, status0 |-> Null, fee |-> 0, read |-> 0, bal |-> 0,
   tokenAmt |-> 0, topped |-> 0, sent |-> 0, wrote |-> FALSE, err |-> FALSE, calls |-> 0,
   notes |-> 0, result |-> Null]
IdleConsole == [pc |-> "idle", id |-> 0]
IdleEsm == [attempts |-> 0, dups |-> 0, swept |-> FALSE]

\* the stack after deployment: empty tables, nothing on chain, no invocation
Deployed ==
  /\ deployment \in Deployments
  /\ now = 1
  /\ table = [i \in TableIds |-> NoItem]
  /\ counter = 0
  /\ nativeBal = [a \in Addresses |-> 0]
  /\ tokenBal = [a \in Addresses |-> 0]
  /\ tokenAcct = [a \in Addresses |-> FALSE]
  /\ treasury = [a \in Addresses |-> 0]
  /\ topUps = [a \in Addresses |-> 0]
  /\ pendingTx = [a \in Addresses |-> <<>>]
  /\ feed = <<>>
  /\ esm = IdleEsm
  /\ sw = IdleSweeper
  /\ w = [x \in Watchers |-> IdleWatcher]
  /\ adm = IdleAdmin
  /\ iss = [x \in Issuers |-> IdleIssuer]
  /\ payNotes = [i \in TableIds |-> 0]
  /\ bodyDecimals = [i \in TableIds |-> 0]
  /\ console = IdleConsole

Init ==
  /\ Deployed
  /\ cap = [invoices |-> MaxInvoices, issuers |-> 1, watchers |-> 1, pending |-> MaxPending,
            clock |-> MaxClock]

\* ------------------------------------------------------------ key derivation
\* HDNodeWallet.fromPhrase(mnemonic, path).address / Keypair.fromSeed(derivePath(path)):
\* the address of the key at a derivation path
\* a derivation that mixes in the time of the call
DeriveAddressAt(path) == (path + now) % (MaxBatch + 1)

DeriveAddress(path) == path

\* ------------------------------------------------------- DynamoDB stream
\* the event source filter: eventName MODIFY and NewImage.status = "paid"
PassesFilter(old, new) == old.exists /\ new.status = "paid"

StreamRecord(id, new) ==
  [invoiceId |-> id, currency |-> new.currency, tokenAddress |-> new.tokenAddress,
   path |-> new.path]

\* the feed after a write that turns item id from old into new
Emit(id, old, new) ==
  IF old # new /\ PassesFilter(old, new) THEN Append(feed, StreamRecord(id, new)) ELSE feed

\* ------------------------------------------------------ invoice generator
\* an update expression that sets the attribute without adding to it
currentIndexKept(c) == c

\* an index taken from the number of invoices stored
currentIndexByCount(c) == Cardinality({i \in DOMAIN table : table[i].exists}) + 1

\* SET currentIndex = if_not_exists(currentIndex, :start) + :inc with :start 0
\* and :inc 1: the value of the attribute after the update
currentIndex(c) == c + 1

\* the counter update, one atomic UpdateItem that returns UPDATED_NEW
IssueCounter(x, currency, amount, decimals) ==
  /\ x <= cap.issuers
  /\ iss[x].pc = "idle"
  /\ counter < cap.invoices
  /\ counter' = currentIndex(counter)
  /\ iss' = [iss EXCEPT ![x] = [pc |-> "put", index |-> counter', currency |-> currency,
                                tokenAddress |-> (currency = TokenCurrency), amount |-> amount,
                                decimals |-> decimals]]
  /\ bodyDecimals' = [bodyDecimals EXCEPT ![counter'] = decimals]
  /\ UNCHANGED <<deployment, now, table, nativeBal, tokenBal, tokenAcct, treasury, topUps,
                 pendingTx, feed, esm, sw, w, adm, payNotes, cap, console>>

\* the item the generator builds for the key at a derivation index
NewInvoice(index, currency, amount, at) ==
  [exists |-> TRUE, status |-> "pending", currency |-> currency,
   tokenAddress |-> (currency = TokenCurrency), amount |-> amount,
   address |-> DeriveAddress(index), path |-> index,
   createdAt |-> at, paidAt |-> 0, sweptAt |-> 0, updatedAt |-> 0]

\* the put of the new item (status pending) under the key id that uuidv4()
\* returned: a put without a condition
IssuePutAt(x, id) ==
  /\ iss[x].pc = "put"
  /\ now < cap.clock
  /\ LET item == NewInvoice(iss[x].index, iss[x].currency, iss[x].amount, now)
     IN /\ table' = [table EXCEPT ![id] = item]
        /\ feed' = Emit(id, table[id], item)
  /\ now' = now + 1
  /\ iss' = [iss EXCEPT ![x] = IdleIssuer]
  /\ UNCHANGED <<deployment, counter, nativeBal, tokenBal, tokenAcct, treasury, topUps,
                 pendingTx, esm, sw, w, adm, payNotes, cap, bodyDecimals, console>>

\* the put of the new item with a fresh invoiceId
IssuePut(x) == IssuePutAt(x, iss[x].index)

\* the handler throws after the counter update (key derivation or the put
\* fails): nothing is stored, the index stays taken
IssueAbort(x) ==
  /\ iss[x].pc = "put"
  /\ iss' = [iss EXCEPT ![x] = IdleIssuer]
  /\ UNCHANGED <<deployment, now, table, counter, nativeBal, tokenBal, tokenAcct, treasury,
                 topUps, pendingTx, feed, esm, sw, w, adm, payNotes, cap, bodyDecimals, console>>

\* --------------------------------------------------------------- the payer
\* what the watcher requires at an address, in base units
Required(item) ==
  IF item.currency = NativeCurrency THEN parseUnits(item.amount, NativeDecimals)
  ELSE parseUnits(item.amount, TokenDecimals)

\* a customer transfer to the invoice's address, in the invoice's asset: the
\* amount still missing, or one base unit less
Pay(id, short) ==
  LET item == table[id]
      a == item.address
      held == IF item.currency = NativeCurrency THEN nativeBal[a] ELSE tokenBal[a]
      amt == Required(item) - held - short
  IN /\ item.exists /\ item.currency \in {NativeCurrency, TokenCurrency}
     /\ amt > 0 /\ treasury[a] = 0 /\ topUps[a] = 0
     /\ IF item.currency = NativeCurrency
          THEN /\ nativeBal' = [nativeBal EXCEPT ![a] = @ + amt]
               /\ UNCHANGED <<tokenBal, tokenAcct>>
          ELSE /\ tokenBal' = [tokenBal EXCEPT ![a] = @ + amt]
               /\ tokenAcct' = [tokenAcct EXCEPT ![a] = TRUE]
               /\ UNCHANGED nativeBal
     /\ UNCHANGED <<deployment, now, table, counter, treasury, topUps, pendingTx, feed, esm,
                    sw, w, adm, iss, payNotes, cap, bodyDecimals, console>>

\* ------------------------------------------------ invoice-management API
AdminVars == <<deployment, counter, nativeBal, tokenBal, tokenAcct, treasury, topUps,
               pendingTx, esm, sw, w, iss, payNotes, cap, bodyDecimals, console>>

\* allowedTransitions of updateInvoiceStatus (EVM)
allowedTransitions(cur) ==
  CASE cur = "pending" -> {"cancelled"}
    [] cur = "cancelled" -> {"pending"}
    [] OTHER -> {}

\* the validation of updateInvoice (Solana): 0 when the request is accepted
updateInvoiceCheck(cur, req) ==
  IF cur \in {"paid", "swept"} THEN 403
  ELSE IF req \notin {"pending", "cancelled"} THEN 400
  ELSE 0

\* GET /invoices/{invoiceId}
getInvoice(id) ==
  /\ adm.pc = "idle"
  /\ adm' = [IdleAdmin EXCEPT !.pc = "done", !.op = "get", !.id = id, !.before = table[id],
                              !.resp = IF table[id].exists THEN 200 ELSE 404]
  /\ UNCHANGED <<now, table, feed>>
  /\ UNCHANGED AdminVars

\* PUT /invoices/{invoiceId}, up to the validation of the requested status
UpdateRead(id, req) ==
  /\ adm.pc = "idle"
  /\ LET item == table[id]
         code == IF ~item.exists THEN 404
                 ELSE IF deployment = "evm"
                   THEN (IF req \in allowedTransitions(item.status) THEN 0 ELSE 400)
                   ELSE updateInvoiceCheck(item.status, req)
     IN adm' = [pc |-> IF code = 0 THEN "write" ELSE "done", op |-> "update", id |-> id,
                req |-> req, cur |-> item.status, before |-> item, resp |-> code]
  /\ UNCHANGED <<now, table, feed>>
  /\ UNCHANGED AdminVars

\* the update of status and updatedAt that follows an accepted validation
UpdateWrite ==
  /\ adm.pc = "write" /\ adm.op = "update"
  /\ LET id == adm.id
         old == table[id]
         new == UpdateItem(old, [status |-> adm.req, updatedAt |-> now])
     IN IF deployment = "evm" /\ ~old.exists
          THEN \* ConditionExpression attribute_exists(invoiceId) failed
               /\ adm' = [adm EXCEPT !.pc = "done", !.resp = 404]
               /\ UNCHANGED <<now, table, feed>>
          ELSE /\ now < cap.clock
               /\ table' = [table EXCEPT ![id] = new]
               /\ feed' = Emit(id, old, new)
               /\ now' = now + 1
               /\ adm' = [adm EXCEPT !.pc = "done", !.resp = 200]
  /\ UNCHANGED AdminVars

\* a delete that checks no status
deletableAnyStatus(item) == TRUE

\* the statuses a delete is allowed in (the ConditionExpression of the EVM
\* delete, the status check of the Solana delete)
deletable(item) == item.status \in {"pending", "cancelled"}

\* DELETE /invoices/{invoiceId} (EVM): one conditional delete
deleteInvoiceEvm(id) ==
  /\ deployment = "evm"
  /\ adm.pc = "idle"
  /\ LET item == table[id]
         ok == item.exists /\ deletable(item)
     IN /\ table' = IF ok THEN [table EXCEPT ![id] = NoItem] ELSE table
        /\ adm' = [IdleAdmin EXCEPT !.pc = "done", !.op = "delete", !.id = id, !.cur = item.status,
                                    !.before = item, !.resp = IF ok THEN 200 ELSE 400]
  /\ UNCHANGED <<now, feed>>
  /\ UNCHANGED AdminVars

\* DELETE /invoices/{invoiceId} (Solana), up to the status check
DeleteRead(id) ==
  /\ deployment # "evm"
  /\ adm.pc = "idle"
  /\ LET item == table[id]
         code == IF ~item.exists THEN 404
                 ELSE IF ~deletable(item) THEN 403
                 ELSE 0
     IN adm' = [pc |-> IF code = 0 THEN "write" ELSE "done", op |-> "delete", id |-> id,
                req |-> Null, cur |-> item.status, before |-> item, resp |-> code]
  /\ UNCHANGED <<now, table, feed>>
  /\ UNCHANGED AdminVars

\* the unconditional delete that follows the status check (Solana)
DeleteWrite ==
  /\ adm.pc = "write" /\ adm.op = "delete"
  /\ table' = [table EXCEPT ![adm.id] = NoItem]
  /\ adm' = [adm EXCEPT !.pc = "done", !.resp = 200]
  /\ UNCHANGED <<now, feed>>
  /\ UNCHANGED AdminVars

\* the response has been returned to the caller
AdminReturn ==
  /\ adm.pc = "done"
  /\ adm' = IdleAdmin
  /\ UNCHANGED <<now, table, feed>>
  /\ UNCHANGED AdminVars

\* ------------------------------------------------------------------ watcher
WatcherVars == <<deployment, counter, treasury, topUps, pendingTx, esm, sw, adm, iss,
                 nativeBal, tokenBal, tokenAcct, cap, bodyDecimals, console>>

\* a query that lists the paid invoices along with the pending ones
RECURSIVE OpenItems(_)
OpenItems(n) ==
  IF n = 0 THEN <<>>
  ELSE LET rest == OpenItems(n - 1)
       IN IF table[n].exists /\ table[n].status \in {"pending", "paid"}
            THEN Append(rest, [invoiceId |-> n, address |-> table[n].address,
                               currency |-> table[n].currency,
                               tokenAddress |-> table[n].tokenAddress,
                               amount |-> table[n].amount])
            ELSE rest

\* the items of the status-index query for "pending", as the handler reads them
RECURSIVE PendingItems(_)
PendingItems(n) ==
  IF n = 0 THEN <<>>
  ELSE LET rest == PendingItems(n - 1)
       IN IF table[n].exists /\ table[n].status = "pending"
            THEN Append(rest, [invoiceId |-> n, address |-> table[n].address,
                               currency |-> table[n].currency,
                               tokenAddress |-> table[n].tokenAddress,
                               amount |-> table[n].amount])
            ELSE rest

\* the invocations of the watcher that run: the schedule's, and where the
\* behaviour allows it a second one beside it (the function has no reserved
\* concurrency, and an asynchronous invocation is delivered at least once)
Invoked(x) == x = "w1" \/ cap.watchers = 2

\* handler, up to the query of the pending invoices
WatcherQuery(x) ==
  /\ Invoked(x)
  /\ w[x].pc = "idle"
  /\ w' = [w EXCEPT ![x] = [pc |-> "loop", items |-> PendingItems(MaxBatch),
                            listed |-> PendingItems(MaxBatch),
                            processed |-> <<>>, failed |-> <<>>]]
  /\ UNCHANGED <<now, table, feed, payNotes>>
  /\ UNCHANGED WatcherVars

\* markPaid: the table after set status = paid, paidAt = now
markPaid(id) == [table EXCEPT ![id] = UpdateItem(table[id], [status |-> "paid", paidAt |-> now])]

\* which branch of the loop body handles the invoice
WatcherBranch(inv) ==
  IF inv.currency = NativeCurrency THEN "native"
  ELSE IF inv.currency = TokenCurrency /\ inv.tokenAddress THEN "token"
  ELSE "none"

\* the balance the branch compares, and the amount it requires
WatcherBalance(inv) ==
  IF WatcherBranch(inv) = "native" THEN nativeBal[inv.address] ELSE tokenBal[inv.address]
\* a watcher that scales by the decimals the creation request carried
WatcherRequiredFromBody(inv) ==
  IF WatcherBranch(inv) = "native" THEN parseUnits(inv.amount, NativeDecimals)
  ELSE parseUnits(inv.amount, bodyDecimals[inv.invoiceId])

WatcherRequired(inv) ==
  IF WatcherBranch(inv) = "native" THEN parseUnits(inv.amount, NativeDecimals)
  ELSE parseUnits(inv.amount, TokenDecimals)

\* the comparison that decides paid: bigint arithmetic on EVM; on Solana
\* balance / LAMPORTS_PER_SOL >= parseFloat(amount) for SOL and
\* Number(balance) >= parseFloat(amount) * Math.pow(10, decimals) for SPL
\* (the two right-hand sides, computed once per amount)
requiredSol == [a \in Amounts |-> parseFloat(a)]
requiredSpl == [a \in Amounts |-> floatMulInt(parseFloat(a), Pow10(TokenDecimals))]

Sufficient(inv) ==
  IF deployment = "evm" THEN WatcherBalance(inv) >= WatcherRequired(inv)
  ELSE IF WatcherBranch(inv) = "native"
    THEN floatGE(floatDiv(WatcherBalance(inv), Pow10(NativeDecimals)), requiredSol[inv.amount])
  ELSE floatGE(Number(WatcherBalance(inv)), requiredSpl[inv.amount])

\* the catch of the loop body: the invoice is reported, the loop goes on
catchInvoice(next, id, error) ==
  [next EXCEPT !.failed = Append(@, [invoiceId |-> id, error |-> error])]

\* one iteration of the loop over Items: balance check, markPaid, notifyMerchant
WatcherProcess(x, fault) ==
  /\ w[x].pc = "loop" /\ w[x].items # <<>>
  /\ fault \in {"none", "rpc", "db", "sns"}
  /\ LET inv == Head(w[x].items)
         id == inv.invoiceId
         branch == WatcherBranch(inv)
         next == [w[x] EXCEPT !.items = Tail(@)]
         fail == catchInvoice(next, id, "rpc")
         insufficient == catchInvoice(next, id, "Insufficient")
         dbFail == catchInvoice(next, id, "db")
         snsFail == catchInvoice(next, id, "sns")
         done == [next EXCEPT !.processed = Append(@, id)]
     IN IF branch = "none"
          THEN /\ fault = "none"
               /\ w' = [w EXCEPT ![x] = next]
               /\ UNCHANGED <<now, table, feed, payNotes>>
        ELSE IF fault = "rpc"
          THEN /\ w' = [w EXCEPT ![x] = fail]
               /\ UNCHANGED <<now, table, feed, payNotes>>
        ELSE IF deployment # "evm" /\ branch = "token" /\ ~tokenAcct[inv.address]
          THEN \* TokenAccountNotFoundError is logged and swallowed
               /\ fault = "none"
               /\ w' = [w EXCEPT ![x] = next]
               /\ UNCHANGED <<now, table, feed, payNotes>>
        ELSE IF ~Sufficient(inv)
          THEN \* throw new Error("Insufficient ...")
               /\ fault = "none"
               /\ w' = [w EXCEPT ![x] = insufficient]
               /\ UNCHANGED <<now, table, feed, payNotes>>
        ELSE IF fault = "db"
          THEN /\ w' = [w EXCEPT ![x] = dbFail]
               /\ UNCHANGED <<now, table, feed, payNotes>>
        ELSE /\ now < cap.clock
             /\ table' = markPaid(id)
             /\ feed' = Emit(id, table[id], markPaid(id)[id])
             /\ now' = now + 1
             /\ IF fault = "sns"
                  THEN w' = [w EXCEPT ![x] = snsFail] /\ UNCHANGED payNotes
                  ELSE /\ w' = [w EXCEPT ![x] = done]
                       /\ payNotes' = [payNotes EXCEPT ![id] = @ + 1]
  /\ UNCHANGED WatcherVars

\* the handler returns { status, processed, failed }
WatcherReturn(x) ==
  /\ w[x].pc = "loop" /\ w[x].items = <<>>
  /\ w' = [w EXCEPT ![x] = IdleWatcher]
  /\ UNCHANGED <<now, table, feed, payNotes>>
  /\ UNCHANGED WatcherVars

\* ------------------------------------------------------------------ sweeper
SweeperVars == <<deployment, counter, w, adm, iss, payNotes, esm, cap, bodyDecimals, console>>

addGasBuffer(estimatedGas) == (estimatedGas * (100 + bufferPercent)) \div 100

\* which branch of the handler sweeps the record
SweepBranch(rec) ==
  IF rec.currency = NativeCurrency THEN "native"
  ELSE IF deployment = "evm" THEN "token"
  ELSE IF rec.currency = TokenCurrency /\ rec.tokenAddress THEN "token"
  ELSE "none"

\* estimatedFee (EVM), estimatedFee (SOL), rentExemption * 2 (SPL)
SweepFee(branch) ==
  IF deployment = "evm" THEN addGasBuffer(GasUnits) * GasPrice
  ELSE IF branch = "native" THEN SolFee
  ELSE RentExempt * RentFactor

\* the fee a confirmed transaction of the invoice address costs it
ChargedFee == IF deployment = "evm" THEN GasUnits * GasPrice ELSE SolFee

\* whether the branch calls ensureSufficientGas / ensureSufficientRent
Ensures(branch) == deployment = "evm" \/ branch = "token"

\* the branch leaves the loop iteration with continue
SweepSkips(branch, a) ==
  IF branch = "token" THEN tokenBal[a] = 0
  ELSE deployment # "evm" /\ nativeBal[a] <= SolFee

\* sendErrorNotification: one publish, whose error is caught and logged
sendErrorNotification(s, snsOk) ==
  [s EXCEPT !.calls = @ + 1, !.notes = @ + (IF snsOk THEN 1 ELSE 0)]

\* what the invocation reports after the catch block: the EVM handler goes on
\* with the loop and returns, the Solana handlers rethrow
CatchResult == IF deployment = "evm" THEN "ok" ELSE "error"

\* the state of the invocation after a catch block out of which the error of
\* the publish escapes and fails the invocation
CaughtPublishThrows(s, snsOk) ==
  [sendErrorNotification(s, snsOk) EXCEPT !.pc = "return", !.err = TRUE,
                                          !.result = IF snsOk THEN CatchResult ELSE "error"]

\* the state of the invocation after its catch block
Caught(s, snsOk) ==
  [sendErrorNotification(s, snsOk) EXCEPT !.pc = "return", !.err = TRUE, !.result = CatchResult]

\* the chain after a confirmed transfer of amt from address a; feePaid is what
\* the invoice address pays for the transaction
NativeAfter(bal, a, amt, feePaid) == [bal EXCEPT ![a] = @ - (amt + feePaid)]
TokenAfter(a, amt) == [tokenBal EXCEPT ![a] = @ - amt]

\* a sweep of the whole balance, with nothing left for the fee
sweepAmountWhole(balance, estimatedFee) == balance

\* const sweepAmount = ethBalance - estimatedFee / balance - estimatedFee
sweepAmount(balance, estimatedFee) == balance - estimatedFee

\* the call of the loop body that throws: "rpc" is a call before the transfer
\* (getBalance, estimateGas, getAccount, the top-up), "transfer" the transfer itself
SweepFaults == {"none", "rpc", "transfer"}

\* one record of the handler's loop up to the status update: derive the key,
\* read balance and fee, top the address up, transfer to the treasury. fault
\* names the call that throws, snsOk whether the error publish succeeds
SweepRun(fault, snsOk) ==
  /\ sw.pc = "idle" /\ feed # <<>>
  /\ fault \in SweepFaults
  /\ Len(pendingTx[DeriveAddress(Head(feed).path)]) < cap.pending
  /\ LET rec == Head(feed)
         a == DeriveAddress(rec.path)
         branch == SweepBranch(rec)
         start == [IdleSweeper EXCEPT !.rec = rec, !.status0 = table[rec.invoiceId].status,
                                      !.read = IF SweepBranch(rec) = "none" THEN 0
                                               ELSE nativeBal[DeriveAddress(rec.path)]]
         fee == SweepFee(branch)
         native == branch = "native"
         bal0 == nativeBal[a]
         topUpAmount == IF Ensures(branch) /\ bal0 < fee THEN fee - bal0 ELSE 0
         confirmsTopUp == deployment # "solanaKms"
         bal1 == IF confirmsTopUp THEN bal0 + topUpAmount ELSE bal0
         toppedBal == [nativeBal EXCEPT ![a] = bal1]
         toppedSum == IF confirmsTopUp THEN [topUps EXCEPT ![a] = @ + topUpAmount] ELSE topUps
         toppedTx == IF confirmsTopUp \/ topUpAmount = 0 THEN pendingTx
                     ELSE [pendingTx EXCEPT ![a] = Append(@, [kind |-> "topup", amt |-> topUpAmount])]
         afterEnsure == [start EXCEPT !.fee = fee, !.bal = bal1,
                                      !.tokenAmt = IF native THEN 0 ELSE tokenBal[a],
                                      !.topped = IF topUpAmount > 0 THEN 1 ELSE 0]
         value == sweepAmount(bal1, fee)
         needed == IF native THEN value + (IF deployment = "evm" THEN fee ELSE SolFee)
                   ELSE IF deployment = "evm" THEN fee ELSE 0
         accepted == bal1 >= needed
         transferTx == IF native THEN [kind |-> "native", amt |-> value]
                       ELSE [kind |-> "token", amt |-> tokenBal[a]]
     IN IF deployment # "evm" /\ rec.path = 0
          THEN \* derivePath(undefined) throws outside the try block
               /\ fault = "none" /\ snsOk
               /\ sw' = [start EXCEPT !.pc = "return", !.err = TRUE, !.result = "error"]
               /\ UNCHANGED <<nativeBal, tokenBal, treasury, topUps, pendingTx>>
        ELSE IF branch = "none"
          THEN /\ fault = "none" /\ snsOk
               /\ sw' = [start EXCEPT !.pc = "mark"]
               /\ UNCHANGED <<nativeBal, tokenBal, treasury, topUps, pendingTx>>
        ELSE IF fault = "rpc" \/ (deployment # "evm" /\ ~native /\ ~tokenAcct[a])
          THEN /\ fault \in {"rpc", "none"}
               /\ sw' = Caught(start, snsOk)
               /\ UNCHANGED <<nativeBal, tokenBal, treasury, topUps, pendingTx>>
        ELSE IF SweepSkips(branch, a)
          THEN /\ fault = "none" /\ snsOk
               /\ sw' = [start EXCEPT !.pc = "return", !.result = "ok", !.fee = fee, !.bal = bal0]
               /\ UNCHANGED <<nativeBal, tokenBal, treasury, topUps, pendingTx>>
        ELSE IF fault = "transfer" \/ (deployment # "solanaKms" /\ ~accepted)
          THEN /\ sw' = Caught(afterEnsure, snsOk)
               /\ nativeBal' = toppedBal
               /\ topUps' = toppedSum
               /\ pendingTx' = toppedTx
               /\ UNCHANGED <<tokenBal, treasury>>
        ELSE /\ snsOk
             /\ sw' = [afterEnsure EXCEPT !.pc = "mark", !.sent = 1]
             /\ topUps' = toppedSum
             /\ IF deployment = "solanaKms"
                  THEN \* sendRawTransaction: submitted, not confirmed
                       /\ pendingTx' = [toppedTx EXCEPT ![a] = Append(@, transferTx)]
                       /\ nativeBal' = toppedBal
                       /\ UNCHANGED <<tokenBal, treasury>>
                  ELSE /\ nativeBal' = IF native THEN NativeAfter(toppedBal, a, value, ChargedFee)
                                       ELSE IF deployment = "evm" THEN NativeAfter(toppedBal, a, 0, ChargedFee)
                                       ELSE toppedBal
                       /\ tokenBal' = IF native THEN tokenBal ELSE TokenAfter(a, tokenBal[a])
                       /\ treasury' = [treasury EXCEPT ![a] = @ + 1]
                       /\ pendingTx' = toppedTx
  /\ UNCHANGED <<now, table, feed, tokenAcct>>
  /\ UNCHANGED SweeperVars

\* the table after the handler's update: set status = swept, sweptAt = now
markSwept(id) ==
  [table EXCEPT ![id] = UpdateItem(table[id], [status |-> "swept", sweptAt |-> now])]

\* the status update that ends the try block
SweepMark(fault, snsOk) ==
  /\ sw.pc = "mark"
  /\ fault \in {"none", "db"}
  /\ IF fault = "db"
       THEN sw' = Caught(sw, snsOk) /\ UNCHANGED <<now, table, feed>>
       ELSE /\ snsOk
            /\ now < cap.clock
            /\ table' = markSwept(sw.rec.invoiceId)
            /\ feed' = Emit(sw.rec.invoiceId, table[sw.rec.invoiceId],
                            markSwept(sw.rec.invoiceId)[sw.rec.invoiceId])
            /\ now' = now + 1
            /\ sw' = [sw EXCEPT !.pc = "return", !.wrote = TRUE, !.result = "ok"]
  /\ UNCHANGED <<nativeBal, tokenBal, tokenAcct, treasury, topUps, pendingTx>>
  /\ UNCHANGED SweeperVars

\* ---------------------------------------------- the event source mapping
EsmVars == <<deployment, now, table, counter, nativeBal, tokenBal, tokenAcct, treasury,
             topUps, pendingTx, w, adm, iss, payNotes, cap, bodyDecimals, console>>

\* the invocation succeeded: the record is checkpointed
EsmAck ==
  /\ sw.pc = "return" /\ sw.result = "ok"
  /\ feed' = Tail(feed)
  /\ esm' = IdleEsm
  /\ sw' = IdleSweeper
  /\ UNCHANGED EsmVars

\* at-least-once delivery: the record of a successful invocation is delivered
\* again; swept remembers that an earlier delivery ended with a confirmed
\* transfer and the status write
EsmDuplicate ==
  /\ sw.pc = "return" /\ sw.result = "ok"
  /\ esm.dups < MaxDuplicates
  /\ esm' = [attempts |-> 0, dups |-> esm.dups + 1,
             swept |-> esm.swept \/ (sw.wrote /\ sw.sent = 1
                                      /\ treasury[DeriveAddress(sw.rec.path)] >= 1)]
  /\ sw' = IdleSweeper
  /\ UNCHANGED feed
  /\ UNCHANGED EsmVars

\* the invocation failed: retried retryAttempts times, then the record is discarded
EsmRetry ==
  /\ sw.pc = "return" /\ sw.result = "error"
  /\ IF esm.attempts < retryAttempts
       THEN esm' = [esm EXCEPT !.attempts = @ + 1] /\ UNCHANGED feed
       ELSE esm' = IdleEsm /\ feed' = Tail(feed)
  /\ sw' = IdleSweeper
  /\ UNCHANGED EsmVars

\* ------------------------------------------------------------- the chain
ChainVars == <<deployment, now, table, counter, feed, esm, sw, w, adm, iss, payNotes,
               tokenAcct, cap, bodyDecimals, console>>

\* a submitted transaction (sendRawTransaction) is confirmed
ChainConfirm(a) ==
  /\ pendingTx[a] # <<>>
  /\ LET tx == Head(pendingTx[a])
         ok == CASE tx.kind = "topup" -> TRUE
                 [] tx.kind = "native" -> nativeBal[a] >= tx.amt + SolFee
                 [] OTHER -> tokenBal[a] >= tx.amt
     IN /\ ok
        /\ nativeBal' = CASE tx.kind = "topup" -> [nativeBal EXCEPT ![a] = @ + tx.amt]
                          [] tx.kind = "native" -> NativeAfter(nativeBal, a, tx.amt, SolFee)
                          [] OTHER -> nativeBal
        /\ tokenBal' = IF tx.kind = "token" THEN TokenAfter(a, tx.amt) ELSE tokenBal
        /\ topUps' = IF tx.kind = "topup" THEN [topUps EXCEPT ![a] = @ + tx.amt] ELSE topUps
        /\ treasury' = IF tx.kind = "topup" THEN treasury ELSE [treasury EXCEPT ![a] = @ + 1]
  /\ pendingTx' = [pendingTx EXCEPT ![a] = Tail(@)]
  /\ UNCHANGED ChainVars

\* a submitted transaction is dropped (expired blockhash, failed execution)
ChainDrop(a) ==
  /\ pendingTx[a] # <<>>
  /\ pendingTx' = [pendingTx EXCEPT ![a] = Tail(@)]
  /\ UNCHANGED <<nativeBal, tokenBal, topUps, treasury>>
  /\ UNCHANGED ChainVars

\* ------------------------------------------------------- specifications
\* a handler has built its result and only has to return it, or the event
\* source has the outcome of an invocation to book. These steps touch nothing
\* but the invocation's own record (and the head of the feed), so they commute
\* with every other action: Next takes them first, which leaves the reachable
\* contents of the tables and of the chain as they are
AtReturn ==
  \/ adm.pc = "done"
  \/ sw.pc = "return"
  \/ \E x \in Watchers : w[x].pc = "loop" /\ w[x].items = <<>>

Running == ~AtReturn

Next ==
  \/ Running /\ \E x \in Issuers, c \in {NativeCurrency, TokenCurrency}, amt \in Amounts,
                     d \in ClientDecimals : IssueCounter(x, c, amt, d)
  \/ Running /\ \E x \in Issuers : IssuePut(x)
  \/ Running /\ \E x \in Issuers : IssueAbort(x)
  \/ Running /\ \E i \in InvoiceIds, short \in {0, 1} : Pay(i, short)
  \/ Running /\ \E i \in InvoiceIds : getInvoice(i)
  \/ Running /\ \E i \in InvoiceIds, r \in RequestedStatuses : UpdateRead(i, r)
  \/ Running /\ UpdateWrite
  \/ Running /\ \E i \in InvoiceIds : deleteInvoiceEvm(i)
  \/ Running /\ \E i \in InvoiceIds : DeleteRead(i)
  \/ Running /\ DeleteWrite
  \/ AdminReturn
  \/ Running /\ \E x \in Watchers : WatcherQuery(x)
  \/ Running /\ \E x \in Watchers, f \in Faults : WatcherProcess(x, f)
  \/ \E x \in Watchers : WatcherReturn(x)
  \/ Running /\ \E f \in SweepFaults, snsOk \in BOOLEAN : SweepRun(f, snsOk)
  \/ Running /\ \E f \in Faults, snsOk \in BOOLEAN : SweepMark(f, snsOk)
  \/ EsmAck
  \/ EsmDuplicate
  \/ EsmRetry
  \/ Running /\ \E a \in Addresses : ChainConfirm(a)
  \/ Running /\ \E a \in Addresses : ChainDrop(a)

Spec == Init /\ [][Next]_vars

\* the handlers one at a time: no invocation starts while another one runs
IssuerIdle == \A x \in Issuers : iss[x].pc = "idle"
AdminIdle == adm.pc = "idle"
WatcherIdle == \A x \in Watchers : w[x].pc = "idle"
SweeperIdle == sw.pc = "idle"

IssuerTurn == AdminIdle /\ WatcherIdle /\ SweeperIdle
AdminTurn == IssuerIdle /\ WatcherIdle /\ SweeperIdle
WatcherTurn == IssuerIdle /\ AdminIdle /\ SweeperIdle
SweeperTurn == IssuerIdle /\ AdminIdle /\ WatcherIdle
ChainTurn == IssuerIdle /\ AdminIdle /\ WatcherIdle /\ SweeperIdle

SoloNext ==
  \/ IssuerTurn /\ \E x \in Issuers, c \in {NativeCurrency, TokenCurrency}, amt \in Amounts,
                        d \in ClientDecimals : IssueCounter(x, c, amt, d)
  \/ IssuerTurn /\ \E x \in Issuers : IssuePut(x)
  \/ IssuerTurn /\ \E x \in Issuers : IssueAbort(x)
  \/ ChainTurn /\ \E i \in InvoiceIds, short \in {0, 1} : Pay(i, short)
  \/ ChainTurn /\ \E a \in Addresses : ChainConfirm(a)
  \/ ChainTurn /\ \E a \in Addresses : ChainDrop(a)
  \/ AdminTurn /\ \E i \in InvoiceIds : getInvoice(i)
  \/ AdminTurn /\ \E i \in InvoiceIds, r \in RequestedStatuses : UpdateRead(i, r)
  \/ AdminTurn /\ UpdateWrite
  \/ AdminTurn /\ \E i \in InvoiceIds : deleteInvoiceEvm(i)
  \/ AdminTurn /\ \E i \in InvoiceIds : DeleteRead(i)
  \/ AdminTurn /\ DeleteWrite
  \/ AdminTurn /\ AdminReturn
  \/ WatcherTurn /\ \E x \in Watchers : WatcherQuery(x)
  \/ WatcherTurn /\ \E x \in Watchers, f \in Faults : WatcherProcess(x, f)
  \/ WatcherTurn /\ \E x \in Watchers : WatcherReturn(x)
  \/ SweeperTurn /\ \E f \in SweepFaults, snsOk \in BOOLEAN : SweepRun(f, snsOk)
  \/ SweeperTurn /\ \E f \in Faults, snsOk \in BOOLEAN : SweepMark(f, snsOk)
  \/ SweeperTurn /\ EsmAck
  \/ SweeperTurn /\ EsmDuplicate
  \/ SweeperTurn /\ EsmRetry

SoloSpec == Init /\ [][SoloNext]_vars

\* ------------------------------------------ recovery of a stuck invoice
\* the operator changes the status of a paid item back to pending in the console
ConsolePending(i) ==
  /\ console.pc = "idle"
  /\ table[i].exists /\ table[i].status = "paid"
  /\ LET new == UpdateItem(table[i], [status |-> "pending"])
     IN /\ table' = [table EXCEPT ![i] = new]
        /\ feed' = Emit(i, table[i], new)
  /\ console' = [pc |-> "toggled", id |-> i]
  /\ UNCHANGED <<deployment, now, counter, nativeBal, tokenBal, tokenAcct, treasury, topUps,
                 pendingTx, esm, sw, w, adm, iss, payNotes, cap, bodyDecimals>>

\* then changes it to paid again; an item that is gone cannot be edited
ConsolePaid ==
  /\ console.pc = "toggled"
  /\ LET i == console.id
         new == UpdateItem(table[i], [status |-> "paid"])
     IN IF table[i].exists
          THEN table' = [table EXCEPT ![i] = new] /\ feed' = Emit(i, table[i], new)
          ELSE UNCHANGED <<table, feed>>
  /\ console' = [console EXCEPT !.pc = "done"]
  /\ UNCHANGED <<deployment, now, counter, nativeBal, tokenBal, tokenAcct, treasury, topUps,
                 pendingTx, esm, sw, w, adm, iss, payNotes, cap, bodyDecimals>>

\* an invoice is stuck in paid: the watcher marked it paid, every delivery of
\* its stream record failed and the record was discarded; the funds are still
\* at its address
StuckInit ==
  /\ deployment \in Deployments
  /\ now = 3
  /\ counter = 1
  /\ \E cur \in {NativeCurrency, TokenCurrency}, amt \in Amounts :
       LET item == UpdateItem(NewInvoice(1, cur, amt, 1), [status |-> "paid", paidAt |-> 2])
       IN /\ table = [i \in TableIds |-> IF i = 1 THEN item ELSE NoItem]
          /\ nativeBal = [a \in Addresses |->
                            IF a = 1 /\ cur = NativeCurrency THEN Required(item) ELSE 0]
          /\ tokenBal = [a \in Addresses |->
                           IF a = 1 /\ cur = TokenCurrency THEN Required(item) ELSE 0]
          /\ tokenAcct = [a \in Addresses |-> a = 1 /\ cur = TokenCurrency]
  /\ bodyDecimals = [i \in TableIds |-> IF i = 1 THEN TokenDecimals ELSE 0]
  /\ treasury = [a \in Addresses |-> 0]
  /\ topUps = [a \in Addresses |-> 0]
  /\ pendingTx = [a \in Addresses |-> <<>>]
  /\ feed = <<>>
  /\ esm = IdleEsm
  /\ sw = IdleSweeper
  /\ w = [x \in Watchers |-> IdleWatcher]
  /\ adm = IdleAdmin
  /\ iss = [x \in Issuers |-> IdleIssuer]
  /\ payNotes = [i \in TableIds |-> IF i = 1 THEN 1 ELSE 0]
  /\ console = IdleConsole
  /\ cap = [invoices |-> MaxInvoices, issuers |-> 1, watchers |-> 1, pending |-> MaxPending,
            clock |-> MaxClock]

RecoveryNext ==
  \/ Running /\ \E i \in InvoiceIds : ConsolePending(i)
  \/ Running /\ ConsolePaid
  \/ Running /\ \E i \in InvoiceIds, r \in RequestedStatuses : UpdateRead(i, r)
  \/ Running /\ UpdateWrite
  \/ Running /\ \E i \in InvoiceIds : deleteInvoiceEvm(i)
  \/ Running /\ \E i \in InvoiceIds : DeleteRead(i)
  \/ Running /\ DeleteWrite
  \/ AdminReturn
  \/ Running /\ \E x \in Watchers : WatcherQuery(x)
  \/ Running /\ \E x \in Watchers, f \in Faults : WatcherProcess(x, f)
  \/ \E x \in Watchers : WatcherReturn(x)
  \/ Running /\ \E f \in SweepFaults, snsOk \in BOOLEAN : SweepRun(f, snsOk)
  \/ Running /\ \E f \in Faults, snsOk \in BOOLEAN : SweepMark(f, snsOk)
  \/ EsmAck
  \/ EsmDuplicate
  \/ EsmRetry
  \/ Running /\ \E a \in Addresses : ChainConfirm(a)
  \/ Running /\ \E a \in Addresses : ChainDrop(a)

RecoverySpec == StuckInit /\ [][RecoveryNext]_vars

\* ------------------------------------------------ concurrent creation
\* MaxIssuers creation requests at a time, MaxBatch invoices in all
RaceInit ==
  /\ Deployed
  /\ cap = [invoices |-> MaxBatch, issuers |-> MaxIssuers, watchers |-> 1, pending |-> MaxPending,
            clock |-> MaxBatch + 1]

RaceNext ==
  \/ \E x \in Issuers, c \in {NativeCurrency, TokenCurrency}, amt \in Amounts,
        d \in ClientDecimals : IssueCounter(x, c, amt, d)
  \/ \E x \in Issuers : IssuePut(x)

RaceSpec == RaceInit /\ [][RaceNext]_vars

\* creation requests, some of which fail, among cancellations and deletions
IssueInit ==
  /\ Deployed
  /\ cap = [invoices |-> MaxBatch, issuers |-> 1, watchers |-> 1, pending |-> MaxPending,
            clock |-> MaxBatch + 1]

IssueNext ==
  \/ Running /\ \E x \in Issuers, c \in {NativeCurrency, TokenCurrency}, amt \in Amounts,
                     d \in ClientDecimals : IssueCounter(x, c, amt, d)
  \/ Running /\ \E x \in Issuers : IssuePut(x)
  \/ Running /\ \E x \in Issuers : IssueAbort(x)
  \/ Running /\ \E i \in InvoiceIds, r \in RequestedStatuses : UpdateRead(i, r)
  \/ Running /\ UpdateWrite
  \/ Running /\ \E i \in InvoiceIds : deleteInvoiceEvm(i)
  \/ Running /\ \E i \in InvoiceIds : DeleteRead(i)
  \/ Running /\ DeleteWrite
  \/ AdminReturn

IssueSpec == IssueInit /\ [][IssueNext]_vars

\* ------------------------------------------------ creation under any key
\* creation requests whose invoiceId is whatever uuidv4() returns: the handler
\* does not look the key up before its put
KeyNext ==
  \/ \E x \in Issuers, c \in {NativeCurrency, TokenCurrency}, amt \in Amounts,
        d \in ClientDecimals : IssueCounter(x, c, amt, d)
  \/ \E x \in Issuers, id \in TableIds : IssuePutAt(x, id)
  \/ \E x \in Issuers : IssueAbort(x)

KeySpec == IssueInit /\ [][KeyNext]_vars

\* ------------------------------------------------ requests in any currency
\* a currency that the payment-URI step of the generator rejects
UnsupportedCurrency == "DOGE"

\* creation requests name any currency; the handler updates the counter and
\* puts the item before it looks at the currency, and the watcher runs its
\* cycles over what is stored
RequestNext ==
  \/ \E x \in Issuers, c \in {NativeCurrency, TokenCurrency, UnsupportedCurrency},
        amt \in Amounts : IssueCounter(x, c, amt, TokenDecimals)
  \/ \E x \in Issuers : IssuePut(x)
  \/ \E x \in Issuers : IssueAbort(x)
  \/ \E x \in Watchers : WatcherQuery(x)
  \/ \E x \in Watchers, f \in Faults : WatcherProcess(x, f)
  \/ \E x \in Watchers : WatcherReturn(x)

RequestSpec == IssueInit /\ [][RequestNext]_vars

\* ------------------------------------------------ sweeps behind a backlog
\* a sweep may start while up to MaxBacklog - 1 transactions await confirmation
BacklogInit ==
  /\ Deployed
  /\ cap = [invoices |-> MaxInvoices, issuers |-> 1, watchers |-> 1, pending |-> MaxBacklog,
            clock |-> MaxClock]

BacklogSpec == BacklogInit /\ [][SoloNext]_vars

\* ------------------------------------------------------- watcher cycles
\* what a customer has sent to an invoice's address: nothing, one base unit
\* less than the amount, or the amount
Payments == {"none", "short", "full"}

Paid(item, payment) ==
  IF payment = "none" THEN 0
  ELSE IF payment = "short" THEN Required(item) - 1
  ELSE Required(item)

\* n invoices have been issued by requests carrying decimals from decs, and
\* their customers have paid or not; the schedule is about to invoke the
\* watcher, in so many invocations at a time
IssuedTo(n, decs, invocations) ==
  /\ deployment \in Deployments
  /\ now = n + 1
  /\ counter = n
  /\ \E cur \in [1..n -> {NativeCurrency, TokenCurrency}], amt \in [1..n -> Amounts],
        pay \in [1..n -> Payments], dec \in [1..n -> decs] :
       /\ table = [i \in TableIds |->
                     IF i <= n THEN NewInvoice(i, cur[i], amt[i], i) ELSE NoItem]
       /\ nativeBal = [a \in Addresses |->
                         IF a \in 1..n /\ cur[a] = NativeCurrency
                           THEN Paid(NewInvoice(a, cur[a], amt[a], a), pay[a]) ELSE 0]
       /\ tokenBal = [a \in Addresses |->
                        IF a \in 1..n /\ cur[a] = TokenCurrency
                          THEN Paid(NewInvoice(a, cur[a], amt[a], a), pay[a]) ELSE 0]
       /\ tokenAcct = [a \in Addresses |->
                         a \in 1..n /\ cur[a] = TokenCurrency /\ pay[a] # "none"]
       /\ bodyDecimals = [i \in TableIds |-> IF i <= n THEN dec[i] ELSE 0]
  /\ treasury = [a \in Addresses |-> 0]
  /\ topUps = [a \in Addresses |-> 0]
  /\ pendingTx = [a \in Addresses |-> <<>>]
  /\ feed = <<>>
  /\ esm = IdleEsm
  /\ sw = IdleSweeper
  /\ w = [x \in Watchers |-> IdleWatcher]
  /\ adm = IdleAdmin
  /\ iss = [x \in Issuers |-> IdleIssuer]
  /\ payNotes = [i \in TableIds |-> 0]
  /\ console = IdleConsole
  /\ cap = [invoices |-> n, issuers |-> 1, watchers |-> invocations, pending |-> MaxPending,
            clock |-> 2 * n + 1]

\* the same, with one invocation of the watcher at a time
Issued(n, decs) == IssuedTo(n, decs, 1)

\* a full batch of invoices from honest requests
CycleInit == Issued(MaxBatch, {TokenDecimals})

CycleNext ==
  \/ \E x \in Watchers : WatcherQuery(x)
  \/ \E x \in Watchers, f \in Faults : WatcherProcess(x, f)
  \/ \E x \in Watchers : WatcherReturn(x)

CycleSpec == CycleInit /\ [][CycleNext]_vars

\* two invoices from requests that may lie about the decimals
TwinInit == Issued(2, ClientDecimals)

TwinSpec == TwinInit /\ [][CycleNext]_vars

\* two invoices, and two invocations of the watcher that overlap
OverlapInit == IssuedTo(2, {TokenDecimals}, 2)

OverlapSpec == OverlapInit /\ [][CycleNext]_vars

\* ------------------------------------------------ delivery of a paid record
\* the stream delivers the paid record of an invoice to the sweeper. The address
\* holds the invoice's amount, or nothing: a status can be set to paid by hand in
\* the table console, and then a token invoice's address may have no token
\* account at all
DeliveredInit ==
  /\ deployment \in Deployments
  /\ now = 3
  /\ counter = 1
  /\ \E cur \in {NativeCurrency, TokenCurrency}, amt \in Amounts, funded \in BOOLEAN,
        acct \in BOOLEAN :
       LET item == UpdateItem(NewInvoice(1, cur, amt, 1), [status |-> "paid", paidAt |-> 2])
           held == IF funded THEN Required(item) ELSE 0
       IN /\ acct = (cur = TokenCurrency /\ (funded \/ acct))
          /\ table = [i \in TableIds |-> IF i = 1 THEN item ELSE NoItem]
          /\ nativeBal = [a \in Addresses |-> IF a = 1 /\ cur = NativeCurrency THEN held ELSE 0]
          /\ tokenBal = [a \in Addresses |-> IF a = 1 /\ cur = TokenCurrency THEN held ELSE 0]
          /\ tokenAcct = [a \in Addresses |-> a = 1 /\ acct]
          /\ feed = <<StreamRecord(1, item)>>
  /\ bodyDecimals = [i \in TableIds |-> IF i = 1 THEN TokenDecimals ELSE 0]
  /\ treasury = [a \in Addresses |-> 0]
  /\ topUps = [a \in Addresses |-> 0]
  /\ pendingTx = [a \in Addresses |-> <<>>]
  /\ esm = IdleEsm
  /\ sw = IdleSweeper
  /\ w = [x \in Watchers |-> IdleWatcher]
  /\ adm = IdleAdmin
  /\ iss = [x \in Issuers |-> IdleIssuer]
  /\ payNotes = [i \in TableIds |-> IF i = 1 THEN 1 ELSE 0]
  /\ console = IdleConsole
  /\ cap = [invoices |-> MaxInvoices, issuers |-> 1, watchers |-> 1, pending |-> MaxPending,
            clock |-> MaxClock]

DeliveryNext ==
  \/ \E f \in SweepFaults, snsOk \in BOOLEAN : SweepRun(f, snsOk)
  \/ \E f \in Faults, snsOk \in BOOLEAN : SweepMark(f, snsOk)
  \/ EsmAck
  \/ EsmDuplicate
  \/ EsmRetry
  \/ \E a \in Addresses : ChainConfirm(a)
  \/ \E a \in Addresses : ChainDrop(a)

DeliverySpec == DeliveredInit /\ [][DeliveryNext]_vars

\* the event source mapping invokes the sweeper while a record is in the feed
\* and books the outcome of every invocation, a started invocation runs to its
\* end, submitted transactions are settled, and calls that are made again and
\* again succeed in the end
DeliveryFairness ==
  /\ WF_vars(\E f \in SweepFaults, snsOk \in BOOLEAN : SweepRun(f, snsOk))
  /\ WF_vars(\E f \in Faults, snsOk \in BOOLEAN : SweepMark(f, snsOk))
  /\ WF_vars(EsmAck \/ EsmRetry)
  /\ WF_vars(\E a \in Addresses : ChainConfirm(a) \/ ChainDrop(a))
  /\ []<><<\E f \in SweepFaults, snsOk \in BOOLEAN : SweepRun(f, snsOk)>>_vars
       => []<><<SweepRun("none", TRUE)>>_vars
  /\ []<><<\E f \in Faults, snsOk \in BOOLEAN : SweepMark(f, snsOk)>>_vars
       => []<><<SweepMark("none", TRUE)>>_vars

RedeliverySpec == DeliveredInit /\ [][DeliveryNext]_vars /\ DeliveryFairness

\* ------------------------------------------------ scheduled watcher cycles
\* the Lambda runtime ends a cycle that is still in its loop when the function
\* timeout elapses; the handler returns nothing and keeps no cursor
WatcherTimeout(x) ==
  /\ w[x].pc = "loop"
  /\ w[x].items # <<>>
  /\ Len(w[x].items) < Len(w[x].listed)
  /\ w' = [w EXCEPT ![x] = IdleWatcher]
  /\ UNCHANGED <<now, table, feed, payNotes>>
  /\ UNCHANGED WatcherVars

\* the loop body reaches invoice i and its reads and its write succeed
WatcherReaches(x, i) ==
  /\ w[x].items # <<>>
  /\ Head(w[x].items).invoiceId = i
  /\ WatcherProcess(x, "none")

\* a batch of invoices of 5.0 each, paid in full, short or not at all
ScheduleInit ==
  /\ Issued(MaxBatch, {TokenDecimals})
  /\ \A i \in 1..MaxBatch : table[i].amount = 50

ScheduleNext ==
  \/ \E x \in Watchers : WatcherQuery(x)
  \/ \E x \in Watchers, f \in Faults : WatcherProcess(x, f)
  \/ \E x \in Watchers : WatcherReturn(x)
  \/ \E x \in Watchers : WatcherTimeout(x)

\* the rule starts a cycle every minute, a started cycle runs until it returns
\* or is cut off, and the reads and writes for an invoice that the loop keeps
\* running for succeed in the end (weak fairness of the loop body with its
\* enabling condition written out; an invoice whose loop body runs again and
\* again has it run without a fault again and again)
ScheduleFairness ==
  /\ \A x \in Watchers : WF_vars(WatcherQuery(x))
  /\ \A x \in Watchers : WF_vars(WatcherReturn(x))
  /\ \A x \in Watchers :
       <>[](w[x].pc = "loop" /\ w[x].items # <<>>)
         => []<><<\E f \in Faults : WatcherProcess(x, f)>>_vars
  /\ \A x \in Watchers, i \in 1..MaxBatch :
       []<><<w[x].items # <<>> /\ Head(w[x].items).invoiceId = i
               /\ \E f \in Faults : WatcherProcess(x, f)>>_vars
         => []<><<WatcherReaches(x, i)>>_vars

ScheduleSpec == ScheduleInit /\ [][ScheduleNext]_vars /\ ScheduleFairness

TypeOK ==
  /\ deployment \in Deployments
  /\ now \in 1..cap.clock
  /\ counter \in 0..cap.invoices
  /\ \A i \in TableIds : table[i].status \in Statuses \cup {Null}
  /\ \A a \in Addresses : nativeBal[a] >= 0 /\ tokenBal[a] >= 0
  /\ \A i \in TableIds : bodyDecimals[i] \in ClientDecimals \cup {0}
  /\ console.pc \in {"idle", "toggled", "done"}

\* ------------------------------------------------------------------ claims
Toggles == {<<"pending", "cancelled">>, <<"cancelled", "pending">>}

\* C1: an administrative status update that runs on its own is accepted only
\* for pending -> cancelled and cancelled -> pending; for every other pair of
\* stored and requested status (the same status included) the response is an
\* error and the record, updatedAt included, is what it was before the request.
C1_OnlyTogglesAccepted ==
  (adm.pc = "done" /\ adm.op = "update" /\ adm.before.exists
     /\ <<adm.before.status, adm.req>> \notin Toggles)
    => (adm.resp # 200 /\ table[adm.id] = adm.before)

\* C2: no step of any interleaving of the administrative update (read,
\* validate, write) with the watcher takes an invoice from paid to cancelled.
C2_PaidNeverCancelled ==
  [][\A i \in InvoiceIds :
       table[i].status = "paid" => table'[i].status # "cancelled"]_vars

\* C3: the watcher's write of paid takes effect only on a record whose stored
\* status is pending at the moment of the write: a record cancelled after the
\* watcher listed it stays cancelled.
C3_PaidOnlyFromPending ==
  [][\A i \in InvoiceIds :
       (table[i].exists /\ table[i].status # "paid" /\ table'[i].status = "paid")
         => table[i].status = "pending"]_vars

\* C4: swept is terminal: no step of any interleaving (a stale watcher, a
\* duplicate sweeper, an administrative update that validated an earlier
\* status) changes the status of a swept record.
C4_SweptTerminal ==
  [][\A i \in InvoiceIds :
       (table[i].status = "swept" /\ table'[i].exists) => table'[i].status = "swept"]_vars

C6_SecondSweepNoOp ==
  (esm.dups > 0 /\ esm.swept /\ sw.pc \in {"mark", "return"} /\ ~sw.err)
    => (sw.topped = 0 /\ sw.sent = 0 /\ ~sw.wrote)

\* C7: a native-coin sweep that finds a balance <= the estimated fee submits
\* no transaction (no top-up, no transfer), does not write swept, and the
\* invoice stays paid.
C7_NativeBelowFeeNoOp ==
  (sw.pc \in {"mark", "return"} /\ SweepBranch(sw.rec) = "native" /\ sw.status0 = "paid"
     /\ sw.read <= SweepFee("native"))
    => (sw.topped = 0 /\ sw.sent = 0 /\ ~sw.wrote
        /\ table[sw.rec.invoiceId].status = "paid")

\* C8: in every reachable state, a record whose status is swept has a
\* confirmed transfer from its address to the treasury; a transfer that was
\* only submitted, or dropped, does not lead to swept.
C8_SweptImpliesConfirmed ==
  \A i \in InvoiceIds :
    (table[i].exists /\ table[i].status = "swept") => treasury[table[i].address] >= 1

\* an invocation that started on a paid record and ended in its catch block
C9_HandlerFailure ==
  (sw.pc = "return" /\ sw.err /\ sw.status0 = "paid")
    => (table[sw.rec.invoiceId].status = "paid" /\ ~sw.wrote /\ sw.calls = 1)

\* the step in which the submitted transfer of invoice i fails on chain
C9_TransferFails(i) ==
  LET a == table[i].address
  IN /\ table[i].exists
     /\ pendingTx[a] # <<>> /\ Head(pendingTx[a]).kind # "topup"
     /\ pendingTx'[a] = Tail(pendingTx[a])
     /\ treasury'[a] = treasury[a]

\* C9: when a step of a sweep fails (balance read, fee estimate, top-up,
\* transfer, confirmation, status write), the stored status is still paid
\* afterwards, no other status was written, and the handler publishes one
\* error notification for the invoice.
C9_FailureLeavesPaid ==
  [][/\ C9_HandlerFailure'
     /\ \A i \in InvoiceIds : C9_TransferFails(i) => table'[i].status = "paid"]_vars

\* C10: a sweep invocation that failed is reported to the event source mapping
\* as a failed invocation, so that the record is delivered again.
C10_FailureReported ==
  (sw.pc = "return" /\ sw.err) => sw.result = "error"

\* C11: a token sweep that finds the address's native balance below the
\* required fee or rent tops it up from the hot wallet by exactly the
\* shortfall, and submits the token transfer only after that top-up is
\* confirmed; with a sufficient balance it submits no top-up.
C11_TopUpConfirmedFirst ==
  (sw.pc \in {"mark", "return"} /\ SweepBranch(sw.rec) = "token" /\ sw.sent = 1)
    => IF sw.read < sw.fee
         THEN /\ sw.topped = 1
              /\ sw.bal = sw.fee
              /\ \A k \in DOMAIN pendingTx[DeriveAddress(sw.rec.path)] :
                   pendingTx[DeriveAddress(sw.rec.path)][k].kind # "topup"
         ELSE sw.topped = 0 /\ sw.bal = sw.read

\* what an invoice's address holds of the invoice's asset, in base units
Held(item) ==
  IF item.currency = NativeCurrency THEN nativeBal[item.address] ELSE tokenBal[item.address]

\* the watcher's loop is through
CycleDone(x) == w[x].pc = "loop" /\ w[x].items = <<>>

\* the invoices a cycle listed, and those it reports as failed
ListedIds(x) == {w[x].listed[k].invoiceId : k \in DOMAIN w[x].listed}
FailedIds(x) == {w[x].failed[k].invoiceId : k \in DOMAIN w[x].failed}

\* in the cycle of watcher x the balance check of invoice bad raised an error,
\* nothing else went wrong, and every other listed invoice holds its amount
C12_OneFailure(x, bad) ==
  /\ CycleDone(x)
  /\ bad \in ListedIds(x)
  /\ \E k \in DOMAIN w[x].failed : w[x].failed[k] = [invoiceId |-> bad, error |-> "rpc"]
  /\ \A k \in DOMAIN w[x].failed :
       w[x].failed[k].error \in {"rpc", "db", "sns"} => w[x].failed[k].invoiceId = bad
  /\ \A i \in ListedIds(x) \ {bad} : Held(table[i]) >= Required(table[i])

\* C12: in a watcher cycle over N pending invoices where the balance check of
\* one raises an error and the other N-1 hold at least the required amount,
\* the N-1 are all paid afterwards, wherever the failing one stands in the
\* list, and the failed list holds exactly the failing invoice.
C12_WatcherIsolation ==
  \A x \in Watchers, bad \in TableIds :
    C12_OneFailure(x, bad)
      => /\ \A i \in ListedIds(x) \ {bad} : table[i].status = "paid"
         /\ FailedIds(x) = {bad}
         /\ Len(w[x].failed) = 1

\* C13: an invoice whose balance is below the required amount, and whose
\* checks raised no error, is left pending by the watcher cycle and appears in
\* neither the processed list nor the failed list of the cycle's result.
C13_ShortfallIsNoError ==
  \A x \in Watchers, i \in TableIds :
    ( /\ CycleDone(x)
      /\ i \in ListedIds(x)
      /\ Held(table[i]) < Required(table[i])
      /\ \A k \in DOMAIN w[x].failed :
           w[x].failed[k].invoiceId = i => w[x].failed[k].error = "Insufficient" )
      => /\ table[i].status = "pending"
         /\ \A k \in DOMAIN w[x].processed : w[x].processed[k] # i
         /\ i \notin FailedIds(x)

\* no check of invoice i raised an error in the cycle of watcher x
NoErrorFor(x, i) ==
  \A k \in DOMAIN w[x].failed :
    w[x].failed[k].invoiceId = i => w[x].failed[k].error = "Insufficient"

\* C14: the watcher turns a pending invoice to paid if and only if the
\* balance at its address, in base units, is at least the requested amount
\* scaled by the asset's decimals.
C14_PaidIffThreshold ==
  \A x \in Watchers, i \in TableIds :
    (CycleDone(x) /\ i \in ListedIds(x) /\ NoErrorFor(x, i))
      => (table[i].status = "paid" <=> Held(table[i]) >= Required(table[i]))

\* invoices i and j of one cycle are token invoices alike in everything the
\* chain and the table hold: amount, balance, no error in their checks
C15_Twins(x, i, j) ==
  /\ CycleDone(x)
  /\ i \in ListedIds(x) /\ j \in ListedIds(x)
  /\ NoErrorFor(x, i) /\ NoErrorFor(x, j)
  /\ table[i].currency = TokenCurrency /\ table[j].currency = TokenCurrency
  /\ table[i].amount = table[j].amount
  /\ Held(table[i]) = Held(table[j])
  /\ tokenAcct[table[i].address] = tokenAcct[table[j].address]

\* C15: the watcher's decision for a token invoice does not depend on the
\* decimals the client supplied at creation: two invoices that differ only in
\* that value (same on-chain decimals, balance and amount) get the same decision.
C15_DecisionIgnoresBodyDecimals ==
  \A x \in Watchers, i \in TableIds, j \in TableIds :
    C15_Twins(x, i, j) => table[i].status = table[j].status

\* two such invoices, one created with the token's decimals and one with a
\* smaller value, holding one base unit less than the amount: both stay pending
C15_Witness ==
  \E x \in Watchers, i \in TableIds, j \in TableIds :
    /\ C15_Twins(x, i, j)
    /\ bodyDecimals[i] = TokenDecimals /\ bodyDecimals[j] = SpoofedDecimals
    /\ Held(table[i]) = Required(table[i]) - 1
    /\ Held(table[j]) >= parseUnits(table[j].amount, SpoofedDecimals)
    /\ table[i].status = "pending" /\ table[j].status = "pending"

\* C16: paidAt and sweptAt are write-once: once set on an invoice, no later
\* step (a further watcher cycle, a duplicate or retried sweeper delivery)
\* writes another value.
C16_WriteOnce ==
  [][\A i \in TableIds :
       (table[i].exists /\ table'[i].exists)
         => /\ table[i].paidAt # 0 => table'[i].paidAt = table[i].paidAt
            /\ table[i].sweptAt # 0 => table'[i].sweptAt = table[i].sweptAt]_vars

\* the derivation indices that creation calls hold, and those of stored invoices
InFlight == {x \in Issuers : iss[x].pc = "put"}
Stored == {i \in TableIds : table[i].exists}

\* C17: concurrent creation calls obtain pairwise distinct derivation indices
\* that form a contiguous range without gaps or repeats, so the invoices they
\* create have pairwise distinct paths and addresses.
C17_NoDoubleIssuance ==
  /\ \A x \in InFlight, y \in InFlight : x # y => iss[x].index # iss[y].index
  /\ \A x \in InFlight, i \in Stored : iss[x].index # table[i].path
  /\ \A i \in Stored, j \in Stored :
       i # j => table[i].path # table[j].path /\ table[i].address # table[j].address
  /\ {iss[x].index : x \in InFlight} \cup {table[i].path : i \in Stored} = 1..counter

\* two calls hold their indices at the same time while an invoice is stored
C17_Witness ==
  /\ Cardinality(InFlight) = MaxIssuers
  /\ Stored # {}
  /\ counter = MaxBatch

\* C18: the first invoice issued against a fresh counter is derived at
\* derivation index 0, and the k-th at index k-1.
C18_FirstIndexZero ==
  /\ \A x \in InFlight : iss[x].index = counter - 1
  /\ \A i \in Stored : table[i].createdAt = 1 => table[i].path = 0

\* the derivation indices handed out so far, whatever became of their invoices
HandedOut == {i \in TableIds : bodyDecimals[i] # 0}

\* C19: the derivation counter only increases and an index is never issued
\* again: whatever creations, cancellations, deletions and failed creations
\* came before, a new invoice gets an index greater than every index handed
\* out before, those of deleted invoices included.
C19_IndexNeverReused ==
  [][/\ counter' >= counter
     /\ \A x \in Issuers :
          (iss[x].pc = "idle" /\ iss'[x].pc = "put")
            => /\ \A i \in HandedOut : iss'[x].index > i
               /\ \A y \in InFlight : iss'[x].index > iss[y].index
               /\ \A i \in Stored : iss'[x].index > table[i].path]_vars

\* an index is handed out after an earlier one lost its invoice (deleted, or
\* its creation failed)
C19_Witness ==
  \E x \in InFlight, i \in HandedOut :
    /\ ~table[i].exists
    /\ \A y \in InFlight : iss[y].index # i
    /\ iss[x].index > i

\* the top-ups from the hot wallet that are submitted and not yet confirmed
TopUpsInFlight ==
  {p \in Addresses \X (1..MaxBacklog) :
     p[2] \in DOMAIN pendingTx[p[1]] /\ pendingTx[p[1]][p[2]].kind = "topup"}

\* C20: at most one sweeper invocation executes at a time, so two top-ups
\* from the hot wallet are never in flight together, also when a paid event
\* is delivered again or a failed invocation is retried.
C20_TopUpsSerialized == Cardinality(TopUpsInFlight) <= 1

\* C21: the payment notification is best-effort in the watcher: an invoice
\* that a cycle has marked paid is reported in the cycle's processed list and
\* not in its failed list, whether or not publishing its notification failed.
C21_NotificationBestEffort ==
  \A x \in Watchers, i \in TableIds :
    (CycleDone(x) /\ i \in ListedIds(x) /\ table[i].status = "paid")
      => /\ \E k \in DOMAIN w[x].processed : w[x].processed[k] = i
         /\ i \notin FailedIds(x)

\* C22: an invoice stuck in paid with its funds at its address is recovered by
\* toggling its status to pending and back to paid: while the toggle is under
\* way no other actor takes the invoice where the recovery can no longer end
\* (its record stays in the table), and a successful run of the sweep handler
\* after the toggle ends with exactly one transfer to the treasury and status
\* swept.
C22_StuckPaidRecovery ==
  [][/\ (console.pc = "toggled" /\ table[console.id].exists) => table'[console.id].exists
     /\ (console'.pc = "done" /\ sw'.pc = "return" /\ sw'.wrote /\ sw'.sent = 1)
          => /\ treasury'[DeriveAddress(sw'.rec.path)] = 1
             /\ table'[sw'.rec.invoiceId].status = "swept"]_vars

\* C23: every pending invoice whose address holds at least the required amount
\* is eventually marked paid, under fair watcher cycles and reads that succeed
\* in the end, however many other invoices are pending and although cycles may
\* be cut off by the timeout.
C23_FundedEventuallyPaid ==
  \A i \in 1..MaxBatch :
    (table[i].exists /\ table[i].status = "pending" /\ Held(table[i]) >= Required(table[i]))
      ~> (table[i].status = "paid")

C25_NativeSweepValue ==
  [][(sw.sent = 0 /\ sw'.sent = 1 /\ SweepBranch(sw'.rec) = "native")
       => LET a == DeriveAddress(sw'.rec.path)
              before == nativeBal[a] + (topUps'[a] - topUps[a])
              expected == before - sw'.fee
          IN /\ expected >= 0
             /\ sw'.bal = before
             /\ IF deployment = "solanaKms"
                  THEN /\ pendingTx'[a] = Append(pendingTx[a], [kind |-> "native", amt |-> expected])
                       /\ nativeBal'[a] = nativeBal[a]
                  ELSE /\ nativeBal'[a] = before - (expected + ChargedFee)
                       /\ treasury'[a] = treasury[a] + 1]_vars

C25_Witness ==
  /\ sw.pc = "mark" /\ sw.sent = 1 /\ SweepBranch(sw.rec) = "native"
  /\ sw.bal > sw.fee
  /\ treasury[DeriveAddress(sw.rec.path)] = 1
  /\ nativeBal[DeriveAddress(sw.rec.path)] = sw.fee - ChargedFee

\* C26: delete is atomic with respect to the status: under any interleaving of
\* a delete with watcher cycles and sweeper invocations, no record is removed
\* while its stored status is paid or swept.
C26_DeleteAtomic ==
  [][\A i \in TableIds :
       (table[i].exists /\ ~table'[i].exists) => table[i].status \notin {"paid", "swept"}]_vars

\* C27: a watcher cycle that starts after an invoice was marked paid writes
\* nothing to that invoice and publishes no notification for it, so cycles run
\* one after another leave the stored invoice as it is and never bring its
\* payment notifications above one.
C27_WatcherIdempotent ==
  [][\A i \in TableIds :
       table[i].status = "paid"
         => /\ table'[i] = table[i]
            /\ payNotes'[i] = payNotes[i]
            /\ payNotes'[i] <= 1]_vars

C27_Witness ==
  \E x \in Watchers, i \in TableIds :
    /\ CycleDone(x) /\ w[x].listed # <<>>
    /\ i \notin ListedIds(x)
    /\ table[i].status = "paid" /\ payNotes[i] = 1

\* what the hot wallet has sent to an address: confirmed top-ups and top-ups
\* still in flight
RECURSIVE TopUpSum(_)
TopUpSum(txs) ==
  IF txs = <<>> THEN 0
  ELSE (IF Head(txs).kind = "topup" THEN Head(txs).amt ELSE 0) + TopUpSum(Tail(txs))

Funding(a) == topUps[a] + TopUpSum(pendingTx[a])

\* no transfer to the treasury has left the address or is in flight
NoTransferYet(a) ==
  /\ treasury[a] = 0
  /\ \A k \in DOMAIN pendingTx[a] : pendingTx[a][k].kind = "topup"

\* C28: after an attempt whose top-up was confirmed and whose transfer failed,
\* a retried sweep in which no call fails makes no second top-up and submits
\* the transfer; and as long as no transfer has left the address, retries never
\* raise what the hot wallet has sent to it above the first top-up.
C28_RetryAfterTopUp ==
  [][\A a \in Addresses :
       (NoTransferYet(a) /\ Funding(a) > 0)
         => /\ Funding(a)' <= Funding(a)
            /\ (sw.pc = "idle" /\ sw'.pc # "idle" /\ ~sw'.err
                  /\ DeriveAddress(sw'.rec.path) = a /\ TopUpSum(pendingTx[a]) = 0)
                 => (sw'.topped = 0 /\ sw'.sent = 1)]_vars

WriteFailedAfterTransfer ==
  /\ sw.pc = "return" /\ sw.sent = 1 /\ ~sw.wrote /\ sw.err
  /\ treasury[DeriveAddress(sw.rec.path)] >= 1
  /\ table[sw.rec.invoiceId].status = "paid"

\* C30: a paid invoice whose funds were transferred to the treasury and whose
\* swept write failed is eventually marked swept by a retried or re-delivered
\* sweep.
C30_EventuallySwept ==
  \A i \in TableIds :
    (WriteFailedAfterTransfer /\ sw.rec.invoiceId = i) ~> (table[i].status = "swept")

\* the attributes an invoice gets at creation
IdentityFields == {"address", "path", "currency", "tokenAddress", "amount", "createdAt"}

\* C31: identity fields are immutable: no step changes the address, path,
\* currency, token identifier, amount or createdAt of a stored invoice; a
\* watcher step writes only status and paidAt, a sweeper step only status and
\* sweptAt, an admin update only status and updatedAt.
C31_IdentityImmutable ==
  [][\A i \in TableIds :
       (table[i].exists /\ table'[i].exists)
         => /\ \A f \in IdentityFields : table'[i][f] = table[i][f]
            /\ w' # w
                 => (table'[i].sweptAt = table[i].sweptAt
                     /\ table'[i].updatedAt = table[i].updatedAt)
            /\ sw' # sw
                 => (table'[i].paidAt = table[i].paidAt
                     /\ table'[i].updatedAt = table[i].updatedAt)
            /\ (adm' # adm /\ adm.op = "update")
                 => (table'[i].paidAt = table[i].paidAt
                     /\ table'[i].sweptAt = table[i].sweptAt)]_vars

C31_Witness ==
  \E i \in TableIds :
    /\ table[i].exists /\ table[i].status = "swept"
    /\ table[i].path # 0 /\ table[i].address = DeriveAddress(table[i].path)
    /\ table[i].paidAt > table[i].createdAt /\ table[i].sweptAt > table[i].paidAt
    /\ table[i].updatedAt > 0

\* C32: invoice creation is create-if-absent: a creation whose invoiceId is
\* already in the store leaves the stored record as it is.
C32_CreateIfAbsent ==
  [][\A i \in TableIds :
       (table[i].exists /\ iss' # iss) => table'[i] = table[i]]_vars

\* C33: a creation request with an unsupported currency has no side effects,
\* so the store never holds a pending invoice that neither branch of the
\* watcher processes.
C33_UnsupportedCurrencyStoresNothing ==
  \A i \in TableIds :
    (table[i].exists /\ table[i].status = "pending") => WatcherBranch(table[i]) # "none"

\* C34: a deleted invoice stays deleted: once an item is absent, only a
\* creation request stores an item under its key; no update of the watcher,
\* the sweeper or the management API brings back a record.
C34_DeletedStaysDeleted ==
  [][\A i \in TableIds : (~table[i].exists /\ table'[i].exists) => iss' # iss]_vars

\* C35: for one invoice the watcher publishes at most one payment notification
\* and writes paid only over pending, also when two of its cycles overlap or
\* the pending invoices it listed have changed since.
C35_PaidOnce ==
  [][\A i \in TableIds :
       /\ payNotes'[i] <= 1
       /\ (w' # w /\ table'[i] # table[i]) => table[i].status = "pending"]_vars

\* C36: when the publish of the sweeper's error notification fails, the sweep
\* ends as it ends after a successful publish: the invocation reports what the
\* catch block reports for the sweep's own error, and the invoice's record and
\* the stream are left as they are.
C36_PublishFailureHarmless ==
  [][(sw'.calls = sw.calls + 1 /\ sw'.notes = sw.notes) =>
        /\ sw'.pc = "return" /\ sw'.err
        /\ sw'.result = CatchResult
        /\ table' = table
        /\ feed' = feed]_vars

C36_Witness ==
  /\ sw.pc = "return" /\ sw.err /\ sw.calls = 1 /\ sw.notes = 0
  /\ sw.result = CatchResult
  /\ table[sw.rec.invoiceId].status = "paid"

====
